---- MODULE Spec2Model ----
(***************************************************************************)
(* Model of the section generation / resume / regeneration pipeline of     *)
(* quick_audiobooks_maker (src/src/audio_generator.py) together with the   *)
(* collaborators it drives: TTSProcessor.generate_speech,                  *)
(* RVCProcessor.convert_audio and the files temp_section_<n>.wav and       *)
(* section_<n>.wav of the output directory.                                *)
(*                                                                         *)
(* A path is modelled by its section number: str(final_output) for section *)
(* n is the number n.  A file is modelled by what it holds.                *)
(* One job call runs at a time (the GUI callbacks), stop_generation may be *)
(* called at any moment, also while a per-section step is in flight.       *)
(***************************************************************************)
EXTENDS Integers, Sequences, FiniteSets, TLC

\* ------------------------------------------------------------------ bounds
NumSections == 3     \* sections held by the TTSProcessor (len(self.sections))
MaxCalls == 2        \* job calls made in one behaviour
MaxSelLen == 2       \* length of the arbitrary (unsorted) selections tried
MaxFaults == 1       \* synthesis and conversion calls that go wrong in one behaviour
MaxTextLen == 5      \* characters of the texts handed to split_text
MaxDirFiles == 3     \* files in the directory handed to get_existing_audio_files

Sections == 1..NumSections

\* what a file holds: nothing (no file), a synthesis, a converted synthesis,
\* or the truncated output of a write that failed
Content == {"none", "raw", "conv", "partial"}

\* outcomes of TTSProcessor.generate_speech
SynthOutcomes == {"ok", "nofile", "fail", "partial"}
\* outcomes of RVCProcessor.convert_audio
ConvOutcomes == {"ok", "fail", "fail_partial"}
\* rvc_model_name given by the caller: none, a loadable model, a name that is
\* not in model_choices, a model whose load fails
ModelNames == {"", "good", "unknown", "broken"}
Voices == {"", "af_heart"}
\* the pairs (use_rvc, rvc_model_name): every operation reads the name only
\* behind "use_rvc and", so one pair stands for use_rvc = False
RvcInputs == {<<FALSE, "">>} \cup {<<TRUE, m>> : m \in ModelNames}
\* the pairs tried on the operations that never look the name up: they only
\* test it for emptiness
RvcFlags == {<<FALSE, "">>, <<TRUE, "">>, <<TRUE, "good">>}

VARIABLES
    is_generating,          \* AudioGenerator.is_generating
    current_section_index,  \* AudioGenerator.current_section_index
    total_sections,         \* AudioGenerator.total_sections
    generated_files,        \* AudioGenerator.generated_files
    current_output_dir,     \* AudioGenerator.current_output_dir: "none" (None) or "dir"
    temp,                   \* temp_section_<n>.wav, per section
    final,                  \* section_<n>.wav, per section
    posix,                  \* Path.rename replaces an existing target (POSIX) or raises (Windows)
    pc,                     \* "idle", "top" (head of the for loop), "step" (inside the loop body)
    op,                     \* the running call, or the last one
    queue,                  \* the sequence the for loop iterates
    pos,                    \* index in queue of the current iteration
    processed_count,        \* local processed_count of the running call
    output_files,           \* local output_files of regenerate_from_section
    rvcOn,                  \* use_rvc and rvc_model_name of the running call
    ret,                    \* what the last call returned
    calls,                  \* number of job calls made
    faults,                 \* number of collaborator calls that went wrong so far
    selected,               \* section numbers named by selected_sections of the running call
    files0,                 \* generated_files when the running call started
    index0,                 \* current_section_index when the running call started
    stepped,                \* sections whose per-section step ran in this call, in order
    synthRes,               \* what generate_speech reported per section in this call
    convRes,                \* what convert_audio returned per section in this call
    stopAt,                 \* section whose step was in flight when stop_generation was called
    stopCalled,             \* stop_generation was called while the running (or last) call was in progress
    resumed,                \* the call before this one was a generate_audio that returned on the stop flag
    player_files,           \* AudioPlayer.generated_files, when it is a list object of its own
    player_shared,          \* AudioPlayer.generated_files is the list object AudioGenerator.generated_files
    current_audio_index,    \* AudioPlayer.current_audio_index
    shown,                  \* what the last playback handler returned as current audio: 0 (None) or a section
    delivered,              \* the result of the last call was handed to handle_generation_complete
    player_output_dir,      \* AudioPlayer.current_output_dir
    concat_temp,            \* the file temp_concatenated.wav of the output directory
    concat_final,           \* the file complete_audiobook.wav of the output directory
    concat_ret,             \* the last call of concatenate_audio_files: its object and what it returned
    text,                   \* the text last handed to TTSProcessor.split_text
    sections,               \* TTSProcessor.sections
    section_count,          \* what the last split_text returned
    output_dir,             \* the directory handed to get_existing_audio_files, and the names of its files
    existing_files          \* what the last get_existing_audio_files returned

vars == <<is_generating, current_section_index, total_sections, generated_files,
          current_output_dir, temp, final, posix, pc, op, queue, pos,
          processed_count, output_files, rvcOn, ret, calls, faults, selected,
          files0, index0, stepped, synthRes, convRes, stopAt, stopCalled, resumed,
          player_files, player_shared, current_audio_index, shown, delivered,
          player_output_dir, concat_temp, concat_final, concat_ret, text,
          sections, section_count, output_dir, existing_files>>

\* ----------------------------------------------------------- pure helpers
Range(s) == {s[i] : i \in DOMAIN s}

RECURSIVE SeqsUpTo(_, _)
SeqsUpTo(S, n) ==
    IF n = 0 THEN {<<>>}
    ELSE LET shorter == SeqsUpTo(S, n - 1)
         IN shorter \cup {Append(s, x) : s \in {t \in shorter : Len(t) = n - 1}, x \in S}

FullSelection == [i \in 1..NumSections |-> i]

\* the selections handed to continue_generation: the labels "Section <n>: ..."
\* are modelled by n
SelectionInputs == SeqsUpTo(Sections, MaxSelLen) \cup {FullSelection}

RECURSIVE Insert(_, _)
Insert(s, x) ==
    IF s = <<>> THEN <<x>>
    ELSE IF x < Head(s) THEN <<x>> \o s
    ELSE <<Head(s)>> \o Insert(Tail(s), x)

RECURSIVE SortAscending(_)
\* list.sort() of integers
SortAscending(s) ==
    IF s = <<>> THEN <<>> ELSE Insert(SortAscending(Tail(s)), Head(s))

StrictlyAscending(s) == \A i \in 1..(Len(s) - 1) : s[i] < s[i + 1]

NoFiles == [n \in Sections |-> "none"]
NoSynth == [n \in Sections |-> "none"]

\* a returned pair (files, message): absent is Python's None, shared tells
\* that the list returned is the object self.generated_files itself
\* and count is the processed_count it reports
Result(files, absent, shared, msg, count) ==
    [files |-> files, absent |-> absent, shared |-> shared, msg |-> msg,
     count |-> count]

NoResult == Result(<<>>, TRUE, FALSE, "none", 0)

\* ------------------------------------------ audiobook files, texts and names
\* a file of the complete audiobook: none, the truncated output of an export
\* that failed, or the audio of a whole export
NoAudio == [kind |-> "none", audio |-> <<>>]
FullAudio(a) == [kind |-> "full", audio |-> a]

\* AudioSegment.from_wav of a file that is there: decoded or an exception
DecodeOutcomes == {"ok", "fail"}
\* combined.export: written, an exception before the file was opened, an
\* exception after part of it was written
ExportOutcomes == {"ok", "fail", "fail_partial"}

\* a call of concatenate_audio_files: the object it was called on, the pair
\* it returned (absent is Python's None), and the parity of the number of
\* calls made so far
ConcatResult(who, absent, msg, odd) ==
    [who |-> who, absent |-> absent, msg |-> msg, odd |-> odd]

NoConcat == ConcatResult("none", TRUE, "none", FALSE)

\* the characters of the texts tried: a letter, the newline, the space
NL == "\n"
Whitespace == {NL, " "}
Chars == {"a"} \cup Whitespace
Texts == SeqsUpTo(Chars, MaxTextLen)

\* a file name is the sequence of its tokens; the decimal digits
DigitChars == <<"0", "1", "2", "3", "4", "5", "6", "7", "8", "9">>
\* the tokens of the names tried, in the order of their strings
TokenOrder == <<".txt", ".wav">> \o DigitChars \o
              <<"_", "audiobook", "complete", "notes", "old", "section", "temp", "x">>

\* the file names tried: section_1.wav, section_2.wav, section_10.wav,
\* temp_section_1.wav, complete_audiobook.wav, section_x.wav,
\* section_1_old.wav, section_.wav, notes.txt
NamePool ==
    {<<"section", "_", "1", ".wav">>,
     <<"section", "_", "2", ".wav">>,
     <<"section", "_", "1", "0", ".wav">>,
     <<"temp", "_", "section", "_", "1", ".wav">>,
     <<"complete", "_", "audiobook", ".wav">>,
     <<"section", "_", "x", ".wav">>,
     <<"section", "_", "1", "_", "old", ".wav">>,
     <<"section", "_", ".wav">>,
     <<"notes", ".txt">>}

\* the directories handed to get_existing_audio_files: None, a path that
\* does not exist, a directory holding some of the names
DirectoryInputs ==
    {[dir |-> "none", names |-> {}], [dir |-> "missing", names |-> {}]}
    \cup {[dir |-> "dir", names |-> S] :
            S \in {T \in SUBSET NamePool : Cardinality(T) <= MaxDirFiles}}

\* AudioPlayer.__init__, TTSProcessor.__init__, and nothing concatenated or
\* listed yet
InitApart ==
    /\ player_output_dir = "none"
    /\ concat_temp = NoAudio
    /\ concat_final = NoAudio
    /\ concat_ret = NoConcat
    /\ text = <<>>
    /\ sections = <<>>
    /\ section_count = 0
    /\ output_dir = [dir |-> "none", names |-> {}]
    /\ existing_files = <<>>

\* ------------------------------------------------- the collaborators' effects
\* TTSProcessor.generate_speech: True is returned when no exception was raised,
\* also when the generator yielded no segment and nothing was written
SynthReturns(o) == o \in {"ok", "nofile"}

\* the file at output_path after generate_speech
SynthWrite(t, n, o) ==
    IF o = "ok" THEN [t EXCEPT ![n] = "raw"]
    ELSE IF o = "partial" THEN [t EXCEPT ![n] = "partial"]
    ELSE t

\* RVCProcessor.convert_audio cannot succeed or start writing without its input
ConvEffective(t, n, c) == IF t[n] = "none" THEN "fail" ELSE c

\* the file at output_path after convert_audio
ConvWrite(f, n, c) ==
    IF c = "ok" THEN [f EXCEPT ![n] = "conv"]
    ELSE IF c = "fail_partial" THEN [f EXCEPT ![n] = "partial"]
    ELSE f

\* Path.rename(target): FileNotFoundError without a source, FileExistsError on
\* Windows when the target exists
RenameRaises(t, f, n) == t[n] = "none" \/ (f[n] # "none" /\ ~posix)

\* the outcome of one per-section step: the files, whether an exception left
\* the loop, whether the section was committed, and what convert_audio
\* returned ("none" when it was not called)
StepResult(t, f, raised, commit, conv) ==
    [temp |-> t, final |-> f, raised |-> raised, commit |-> commit, conv |-> conv]

\* temp_output.rename(final_output); the step goes on to its commit unless
\* the rename raised
Rename(t, f, n, conv) ==
    IF RenameRaises(t, f, n) THEN StepResult(t, f, TRUE, FALSE, conv)
    ELSE StepResult([t EXCEPT ![n] = "none"], [f EXCEPT ![n] = t[n]], FALSE, TRUE, conv)

\* what the caller of convert_audio gets: True or False
ConvReturns(cc) == IF cc = "ok" THEN "ok" ELSE "fail"

\* ------------------------------------------------ AudioGenerator, the steps
\* a generate_audio that does not look at the result of generate_speech
GenSkipsNothing(o) == FALSE

\* generate_audio: "if not self.processor.generate_speech(...): continue"
GenSkipsSection(o) == ~SynthReturns(o)

\* a generate_audio that commits without the exists() test
GenCommitsAlways(f, n) == TRUE

\* generate_audio: "if final_output.exists():" guarding the commit
GenCommits(f, n) == f[n] # "none"

\* a generate_audio step without the removal of existing files
GenStepNoCleanup(n, rv, o, c) ==
    LET t1 == SynthWrite(temp, n, o)
    IN IF GenSkipsSection(o) THEN StepResult(t1, final, FALSE, FALSE, "none")
       ELSE IF rv
       THEN LET cc == ConvEffective(t1, n, c)
                f1 == ConvWrite(final, n, cc)
            IN IF cc = "ok"
               THEN StepResult([t1 EXCEPT ![n] = "none"], f1, FALSE, TRUE, "ok")
               ELSE Rename(t1, f1, n, "fail")
       ELSE Rename(t1, final, n, "none")

\* generate_audio, the body of the for loop for section n
GenStep(n, rv, o, c) ==
    LET t0 == [temp EXCEPT ![n] = "none"]
        f0 == [final EXCEPT ![n] = "none"]
        t1 == SynthWrite(t0, n, o)
        guarded(r) == [r EXCEPT !.commit = ~r.raised /\ GenCommits(r.final, n)]
    IN IF GenSkipsSection(o) THEN StepResult(t1, f0, FALSE, FALSE, "none")
       ELSE IF rv
       THEN LET cc == ConvEffective(t1, n, c)
                f1 == ConvWrite(f0, n, cc)
            IN IF cc = "ok"
               THEN guarded(StepResult([t1 EXCEPT ![n] = "none"], f1, FALSE, TRUE, "ok"))
               ELSE IF t1[n] # "none"
               THEN guarded(Rename(t1, f1, n, "fail"))
               ELSE guarded(StepResult(t1, f1, FALSE, TRUE, "fail"))
       ELSE IF t1[n] # "none"
       THEN guarded(Rename(t1, f0, n, "none"))
       ELSE guarded(StepResult(t1, f0, FALSE, TRUE, "none"))

\* continue_generation, the body of the for loop for section n: no cleanup,
\* the result of generate_speech is not looked at, unlink and rename come
\* without an exists() test, the commit is unconditional
ContStep(n, rv, o, c) ==
    LET t1 == SynthWrite(temp, n, o)
    IN IF rv
       THEN LET cc == ConvEffective(t1, n, c)
                f1 == ConvWrite(final, n, cc)
            IN IF cc = "ok"
               THEN StepResult([t1 EXCEPT ![n] = "none"], f1, FALSE, TRUE, "ok")
               ELSE Rename(t1, f1, n, "fail")
       ELSE Rename(t1, final, n, "none")

\* a regeneration step that promotes as continue_generation does: rename
\* without unlinking an existing final file
RegenStepNoUnlink(n, rv, o, c) ==
    LET t1 == SynthWrite(temp, n, o)
    IN IF ~SynthReturns(o) THEN StepResult(t1, final, FALSE, FALSE, "none")
       ELSE ContStep(n, rv, o, c)

\* regenerate_section and regenerate_from_section, the step for section n:
\* no cleanup, every unlink and rename behind an exists() test, an existing
\* final file unlinked before the rename; commit is the test
\* "if final_output.exists():" of regenerate_from_section
RegenStep(n, rv, o, c) ==
    LET t1 == SynthWrite(temp, n, o)
        promote(t, f, conv) ==
            IF t[n] # "none"
            THEN StepResult([t EXCEPT ![n] = "none"], [f EXCEPT ![n] = t[n]],
                            FALSE, TRUE, conv)
            ELSE StepResult(t, f, FALSE, f[n] # "none", conv)
    IN IF ~SynthReturns(o) THEN StepResult(t1, final, FALSE, FALSE, "none")
       ELSE IF rv
       THEN LET cc == ConvEffective(t1, n, c)
                f1 == ConvWrite(final, n, cc)
            IN IF cc = "ok"
               THEN StepResult([t1 EXCEPT ![n] = "none"], f1, FALSE, TRUE, "ok")
               ELSE promote(t1, f1, "fail")
       ELSE promote(t1, final, "none")

\* what generate_speech reported for a section, as the jobs' trace keeps it:
\* success with a file written, success with nothing written, failure
SynthReport(o) ==
    IF o = "ok" THEN "ok" ELSE IF o = "nofile" THEN "empty" ELSE "fail"

\* ------------------------------------------------------------------ actions
Init ==
    /\ is_generating = FALSE
    /\ current_section_index = 0
    /\ total_sections = 0
    /\ generated_files = <<>>
    /\ current_output_dir = "none"
    /\ temp = NoFiles
    /\ final = NoFiles
    /\ posix \in BOOLEAN
    /\ pc = "idle"
    /\ op = "none"
    /\ queue = <<>>
    /\ pos = 1
    /\ processed_count = 0
    /\ output_files = <<>>
    /\ rvcOn = FALSE
    /\ ret = NoResult
    /\ calls = 0
    /\ faults = 0
    /\ selected = {}
    /\ files0 = <<>>
    /\ index0 = 0
    /\ stepped = <<>>
    /\ synthRes = NoSynth
    /\ convRes = NoSynth
    /\ stopAt = 0
    /\ stopCalled = FALSE
    /\ resumed = FALSE
    /\ player_files = <<>>
    /\ player_shared = FALSE
    /\ current_audio_index = 0
    /\ shown = 0
    /\ delivered = FALSE
    /\ InitApart

\* the fields of AudioGenerator that hold the job state
state == <<is_generating, current_section_index, total_sections, generated_files>>
\* the files of the output directory
disk == <<temp, final>>
\* the locals of the running call
locals == <<queue, pos, processed_count, output_files, rvcOn>>
\* the record of the steps of the running call
trace == <<stepped, synthRes, convRes>>
\* the two files of the complete audiobook
book == <<concat_temp, concat_final>>
\* what the job, the playback cursor and the handlers never touch: the
\* directory of AudioPlayer, the last concatenation, the text store and the
\* directory listing
apart == <<player_output_dir, concat_ret, text, sections, section_count,
           output_dir, existing_files>>
\* the fields of AudioPlayer, and what its handlers last returned
player == <<player_files, player_shared, current_audio_index, shown>>
\* what only the entry of a call changes
frame == <<posix, book, apart, current_output_dir, calls, op, selected, files0, index0, resumed,
           player, delivered>>

\* the list AudioPlayer.generated_files refers to
PlayerList == IF player_shared THEN generated_files ELSE player_files

\* the call leaves the list object of the player alone (appending to
\* self.generated_files is seen through a shared reference)
KeepPlayerList == UNCHANGED <<player_files, player_shared>>

\* "self.generated_files = []" binds a new list: a player that held the old
\* object keeps it, with its contents
DetachPlayerList ==
    /\ player_files' = PlayerList
    /\ player_shared' = FALSE

\* bookkeeping done when a call is entered
Enter(name, sel) ==
    /\ pc = "idle"
    /\ calls < MaxCalls
    /\ calls' = calls + 1
    /\ op' = name
    /\ selected' = Range(sel)
    /\ files0' = generated_files
    /\ index0' = current_section_index
    /\ stopAt' = 0
    /\ stopCalled' = FALSE
    /\ resumed' = (op = "generate" /\ ret.msg = "stopped")
    /\ delivered' = FALSE
    /\ UNCHANGED <<posix, book, apart, current_output_dir, current_audio_index,
                   shown>>

\* no per-section step has run yet in the call entered
NoStepYet ==
    /\ stepped' = <<>>
    /\ synthRes' = NoSynth
    /\ convRes' = NoSynth

\* the step for section n has run with outcome o of generate_speech
Record(n, o, r) ==
    /\ stepped' = Append(stepped, n)
    /\ synthRes' = [synthRes EXCEPT ![n] = SynthReport(o)]
    /\ convRes' = [convRes EXCEPT ![n] = r.conv]

\* the call returns r: its locals are gone
Leave(r) ==
    /\ pc' = "idle"
    /\ ret' = r
    /\ queue' = <<>>
    /\ pos' = 1
    /\ processed_count' = 0
    /\ output_files' = <<>>
    /\ rvcOn' = FALSE

\* a loop that iterates its list from the end
StartLoopReversed(q, rv) ==
    /\ pc' = "top"
    /\ queue' = [i \in 1..Len(q) |-> q[Len(q) + 1 - i]]
    /\ pos' = 1
    /\ processed_count' = 0
    /\ output_files' = <<>>
    /\ rvcOn' = rv
    /\ ret' = NoResult

\* a call that enters its loop over q
StartLoop(q, rv) ==
    /\ pc' = "top"
    /\ queue' = q
    /\ pos' = 1
    /\ processed_count' = 0
    /\ output_files' = <<>>
    /\ rvcOn' = rv
    /\ ret' = NoResult

\* the loop goes to its next iteration
NextIteration ==
    /\ pc' = "top"
    /\ pos' = pos + 1
    /\ UNCHANGED <<queue, rvcOn, ret>>

\* the environment: outcome o of generate_speech and, when convert_audio is
\* called, outcome c of it; every outcome other than "ok" uses up the budget
Charge(o, c, converts) ==
    LET cost == (IF o = "ok" THEN 0 ELSE 1) + (IF converts /\ c # "ok" THEN 1 ELSE 0)
    IN /\ converts \/ c = "ok"
       /\ faults + cost <= MaxFaults
       /\ faults' = faults + cost

\* "self.current_output_dir / f'temp_section_{n}.wav'" raises TypeError
\* while current_output_dir is None
PathRaises == current_output_dir = "none"

\* set_output_dir
SetOutputDir ==
    /\ pc = "idle"
    /\ current_output_dir = "none"
    /\ current_output_dir' = "dir"
    /\ UNCHANGED <<state, disk, locals, trace, posix, book, apart, pc, op, ret,
                   calls, faults,
                   selected, files0, index0, stopAt, stopCalled, resumed,
                   player, delivered>>

\* generate_audio up to its for loop
GenerateAudio(hasSections, voice, use_rvc, model) ==
    /\ Enter("generate", FullSelection)
    /\ NoStepYet
    /\ UNCHANGED <<disk, faults>>
    /\ IF ~hasSections \/ voice = ""
       THEN /\ Leave(Result(<<>>, FALSE, FALSE, "rejected", 0))
            /\ UNCHANGED state
            /\ KeepPlayerList
       ELSE /\ generated_files' = <<>>
            /\ DetachPlayerList
            /\ is_generating' = TRUE
            /\ current_section_index' = 0
            /\ total_sections' = NumSections
            /\ IF use_rvc /\ model \in {"unknown", "broken"}
               THEN Leave(Result(<<>>, FALSE, FALSE, "rejected", 0))
               ELSE StartLoop(FullSelection, use_rvc /\ model # "")

\* a loop that never reads the flag
StopNeverObserved(flag) == FALSE

\* generate_audio: "if not self.is_generating: return ..."
StopObserved(flag) == ~flag

\* generate_audio: the head of an iteration, and the return after the loop
GenLoopTop ==
    /\ pc = "top" /\ op = "generate"
    /\ UNCHANGED <<state, disk, trace, faults, stopAt, stopCalled, frame>>
    /\ IF pos > Len(queue)
       THEN IF processed_count > 0
            THEN Leave(Result(generated_files, FALSE, TRUE, "success", processed_count))
            ELSE Leave(Result(<<>>, FALSE, FALSE, "all_failed", 0))
       ELSE IF StopObserved(is_generating)
       THEN Leave(Result(generated_files, FALSE, TRUE, "stopped", processed_count))
       ELSE /\ pc' = "step"
            /\ UNCHANGED <<locals, ret>>

\* generate_audio: one per-section step; an exception is caught by
\* "except Exception", which returns [] and leaves is_generating alone
GenLoopBody ==
    /\ pc = "step" /\ op = "generate"
    /\ UNCHANGED <<is_generating, total_sections, stopAt, stopCalled, frame>>
    /\ IF PathRaises
       THEN /\ Leave(Result(<<>>, FALSE, FALSE, "error", processed_count))
            /\ UNCHANGED <<generated_files, current_section_index, disk, trace, faults>>
       ELSE \E o \in SynthOutcomes, c \in ConvOutcomes :
              LET n == queue[pos]
                  r == GenStep(n, rvcOn, o, c)
              IN /\ Charge(o, c, r.conv # "none")
                 /\ temp' = r.temp
                 /\ final' = r.final
                 /\ Record(n, o, r)
                 /\ IF r.raised
                    THEN /\ Leave(Result(<<>>, FALSE, FALSE, "error", processed_count))
                         /\ UNCHANGED <<generated_files, current_section_index>>
                    ELSE /\ NextIteration
                         /\ generated_files' =
                              IF r.commit THEN Append(generated_files, n)
                              ELSE generated_files
                         /\ current_section_index' =
                              IF r.commit THEN n ELSE current_section_index
                         /\ processed_count' =
                              IF r.commit THEN processed_count + 1 ELSE processed_count
                         /\ UNCHANGED output_files

\* a filter that takes the last completed section again
ShouldProcessInclusive(section_num, index) == section_num >= index

\* continue_generation: "if section_num > self.current_section_index:"
ShouldProcess(section_num, index) == section_num > index

\* a continue_generation that takes every selected section
SectionNumbersUnfiltered(sel, index) == SortAscending(sel)

\* continue_generation: section_numbers_to_process after the filter and sort()
SectionNumbersToProcess(sel, index) ==
    SortAscending(SelectSeq(sel, LAMBDA x : ShouldProcess(x, index)))

\* TTSProcessor.get_section(idx) for section number n = idx + 1: None outside
\* the list
HasSection(n) == n \in Sections

\* continue_generation up to its for loop
ContinueGeneration(sel, voice, use_rvc, model) ==
    /\ Enter("continue", sel)
    /\ NoStepYet
    /\ KeepPlayerList
    /\ UNCHANGED <<disk, faults, current_section_index, generated_files>>
    /\ IF sel = <<>> \/ voice = ""
       THEN /\ Leave(Result(<<>>, TRUE, FALSE, "rejected", 0))
            /\ UNCHANGED <<is_generating, total_sections>>
       ELSE LET todo == SectionNumbersToProcess(sel, current_section_index)
            IN IF todo = <<>>
               THEN /\ Leave(Result(generated_files, FALSE, TRUE, "nothing_to_do", 0))
                    /\ UNCHANGED <<is_generating, total_sections>>
               ELSE /\ total_sections' = Len(todo)
                    /\ is_generating' = TRUE
                    /\ StartLoop(todo, use_rvc /\ model # "")

\* continue_generation: the head of an iteration, and the return after the loop
ContLoopTop ==
    /\ pc = "top" /\ op = "continue"
    /\ UNCHANGED <<current_section_index, total_sections, generated_files, disk,
                   trace, faults, stopAt, stopCalled, frame>>
    /\ IF pos > Len(queue)
       THEN /\ is_generating' = FALSE
            /\ IF processed_count > 0
               THEN Leave(Result(generated_files, FALSE, TRUE, "success", processed_count))
               ELSE Leave(Result(generated_files, FALSE, TRUE, "no_new", 0))
       ELSE IF StopObserved(is_generating)
       THEN /\ Leave(Result(generated_files, FALSE, TRUE, "stopped", processed_count))
            /\ UNCHANGED is_generating
       ELSE /\ pc' = "step"
            /\ UNCHANGED <<is_generating, locals, ret>>

\* a continue_generation step that appends without moving the index
ContLoopBodyKeepsIndex ==
    /\ pc = "step" /\ op = "continue"
    /\ UNCHANGED <<total_sections, stopAt, stopCalled, frame>>
    /\ LET n == queue[pos]
       IN IF ~HasSection(n)
          THEN /\ NextIteration
               /\ UNCHANGED <<is_generating, current_section_index, generated_files,
                              disk, trace, faults, processed_count, output_files>>
          ELSE IF PathRaises
          THEN /\ is_generating' = FALSE
               /\ Leave(Result(<<>>, FALSE, FALSE, "error", processed_count))
               /\ UNCHANGED <<generated_files, current_section_index, disk, trace,
                              faults>>
          ELSE \E o \in SynthOutcomes, c \in ConvOutcomes :
                 LET r == ContStep(n, rvcOn, o, c)
                 IN /\ Charge(o, c, r.conv # "none")
                    /\ temp' = r.temp
                    /\ final' = r.final
                    /\ Record(n, o, r)
                    /\ IF r.raised
                       THEN /\ is_generating' = FALSE
                            /\ Leave(Result(<<>>, FALSE, FALSE, "error", processed_count))
                            /\ UNCHANGED <<generated_files, current_section_index>>
                       ELSE /\ NextIteration
                            /\ generated_files' = Append(generated_files, n)
                            /\ current_section_index' = current_section_index
                            /\ processed_count' = processed_count + 1
                            /\ UNCHANGED <<is_generating, output_files>>

\* continue_generation: one per-section step; an exception is caught by
\* "except Exception", which clears is_generating and returns []
ContLoopBody ==
    /\ pc = "step" /\ op = "continue"
    /\ UNCHANGED <<total_sections, stopAt, stopCalled, frame>>
    /\ LET n == queue[pos]
       IN IF ~HasSection(n)
          THEN /\ NextIteration
               /\ UNCHANGED <<is_generating, current_section_index, generated_files,
                              disk, trace, faults, processed_count, output_files>>
          ELSE IF PathRaises
          THEN /\ is_generating' = FALSE
               /\ Leave(Result(<<>>, FALSE, FALSE, "error", processed_count))
               /\ UNCHANGED <<generated_files, current_section_index, disk, trace,
                              faults>>
          ELSE \E o \in SynthOutcomes, c \in ConvOutcomes :
                 LET r == ContStep(n, rvcOn, o, c)
                 IN /\ Charge(o, c, r.conv # "none")
                    /\ temp' = r.temp
                    /\ final' = r.final
                    /\ Record(n, o, r)
                    /\ IF r.raised
                       THEN /\ is_generating' = FALSE
                            /\ Leave(Result(<<>>, FALSE, FALSE, "error", processed_count))
                            /\ UNCHANGED <<generated_files, current_section_index>>
                       ELSE /\ NextIteration
                            /\ generated_files' = Append(generated_files, n)
                            /\ current_section_index' = n
                            /\ processed_count' = processed_count + 1
                            /\ UNCHANGED <<is_generating, output_files>>

\* regenerate_section: the whole call (it has no loop and reads no flag);
\* section_number 0 stands for an empty field.  An exception is caught by
\* "except Exception", which returns self.generated_files
RegenerateSection(n, voice, use_rvc, model) ==
    /\ Enter("regenerate", IF n = 0 THEN <<>> ELSE <<n>>)
    /\ KeepPlayerList
    /\ UNCHANGED state
    /\ IF n = 0 \/ voice = ""
       THEN /\ Leave(Result(<<>>, TRUE, FALSE, "rejected", 0))
            /\ NoStepYet
            /\ UNCHANGED <<disk, faults>>
       ELSE IF PathRaises
       THEN /\ Leave(Result(generated_files, FALSE, TRUE, "error", 0))
            /\ NoStepYet
            /\ UNCHANGED <<disk, faults>>
       ELSE \E o \in SynthOutcomes, c \in ConvOutcomes :
              LET r == RegenStep(n, use_rvc /\ model # "", o, c)
              IN /\ Charge(o, c, r.conv # "none")
                 /\ temp' = r.temp
                 /\ final' = r.final
                 /\ stepped' = <<n>>
                 /\ synthRes' = [NoSynth EXCEPT ![n] = SynthReport(o)]
                 /\ convRes' = [NoSynth EXCEPT ![n] = r.conv]
                 /\ Leave(Result(generated_files, FALSE, TRUE,
                                 IF SynthReturns(o) THEN "success" ELSE "failed", 0))

\* regenerate_from_section up to its for loop
RegenerateFromSection(n, voice, use_rvc, model) ==
    /\ Enter("regenerate_from", IF n = 0 THEN <<>> ELSE <<n>>)
    /\ KeepPlayerList
    /\ NoStepYet
    /\ UNCHANGED <<state, disk, faults>>
    /\ IF n = 0 \/ voice = ""
       THEN Leave(Result(<<>>, TRUE, FALSE, "rejected", 0))
       ELSE StartLoop([i \in 1..(NumSections - n + 1) |-> n + i - 1],
                      use_rvc /\ model # "")

\* regenerate_from_section: the head of an iteration, and the return after
\* the loop
RegenFromLoopTop ==
    /\ pc = "top" /\ op = "regenerate_from"
    /\ UNCHANGED <<state, disk, trace, faults, stopAt, stopCalled, frame>>
    /\ IF pos > Len(queue)
       THEN IF output_files # <<>>
            THEN Leave(Result(output_files, FALSE, FALSE, "success", processed_count))
            ELSE Leave(Result(generated_files, FALSE, TRUE, "invalid_section", 0))
       ELSE IF StopObserved(is_generating)
       THEN Leave(Result(output_files, FALSE, FALSE, "stopped", processed_count))
       ELSE /\ pc' = "step"
            /\ UNCHANGED <<locals, ret>>

\* regenerate_from_section: one per-section step
RegenFromLoopBody ==
    /\ pc = "step" /\ op = "regenerate_from"
    /\ UNCHANGED <<state, stopAt, stopCalled, frame>>
    /\ IF PathRaises
       THEN /\ Leave(Result(generated_files, FALSE, TRUE, "error", processed_count))
            /\ UNCHANGED <<disk, trace, faults>>
       ELSE \E o \in SynthOutcomes, c \in ConvOutcomes :
              LET n == queue[pos]
                  r == RegenStep(n, rvcOn, o, c)
              IN /\ Charge(o, c, r.conv # "none")
                 /\ temp' = r.temp
                 /\ final' = r.final
                 /\ Record(n, o, r)
                 /\ NextIteration
                 /\ output_files' =
                      IF r.commit THEN Append(output_files, n) ELSE output_files
                 /\ processed_count' =
                      IF r.commit THEN processed_count + 1 ELSE processed_count

\* a stop_generation that also forgets the last completed section
StopGenerationResets ==
    /\ is_generating' = FALSE
    /\ current_section_index' = 0
    /\ stopAt' = IF pc = "step" /\ stopAt = 0 THEN queue[pos] ELSE stopAt
    /\ stopCalled' = (stopCalled \/ pc # "idle")
    /\ UNCHANGED <<total_sections, generated_files, disk,
                   pc, locals, ret, trace, faults, frame>>

\* stop_generation
StopGeneration ==
    /\ is_generating' = FALSE
    /\ stopAt' = IF pc = "step" /\ stopAt = 0 THEN queue[pos] ELSE stopAt
    /\ stopCalled' = (stopCalled \/ pc # "idle")
    /\ UNCHANGED <<current_section_index, total_sections, generated_files, disk,
                   pc, locals, ret, trace, faults, frame>>

Next ==
    \/ SetOutputDir
    \/ \E h \in BOOLEAN, v \in Voices, x \in RvcInputs :
         GenerateAudio(h, v, x[1], x[2])
    \/ GenLoopTop
    \/ GenLoopBody
    \/ \E sel \in SelectionInputs, v \in Voices, x \in RvcFlags :
         ContinueGeneration(sel, v, x[1], x[2])
    \/ ContLoopTop
    \/ ContLoopBody
    \/ \E n \in 0..NumSections, v \in Voices, x \in RvcFlags :
         RegenerateSection(n, v, x[1], x[2])
    \/ \E n \in 0..NumSections, v \in Voices, x \in RvcFlags :
         RegenerateFromSection(n, v, x[1], x[2])
    \/ RegenFromLoopTop
    \/ RegenFromLoopBody
    \/ StopGeneration

Spec == Init /\ [][Next]_vars

\* ------------------------------------- AudioPlayer and UIEventHandlers
\* everything but the player and the delivery of results
pipeline == <<state, disk, locals, trace, pc, ret, faults, stopAt, stopCalled,
              posix, book, apart, current_output_dir, calls, op, selected,
              files0, index0, resumed>>

\* AudioPlayer.get_current_audio: None (0) on an empty list
GetCurrentAudio(files, idx) == IF files = <<>> THEN 0 ELSE files[idx + 1]

\* a next_audio that stays on the last item
NextIndexNoWrap(idx, len) == IF idx + 1 < len THEN idx + 1 ELSE idx

\* AudioPlayer.next_audio: "(self.current_audio_index + 1) % len(...)"
NextIndex(idx, len) == (idx + 1) % len

\* AudioPlayer.previous_audio: "(self.current_audio_index - 1) % len(...)",
\* Python's % taking the sign of the divisor
PreviousIndex(idx, len) == IF idx - 1 < 0 THEN idx - 1 + len ELSE (idx - 1) % len

\* a handle_generation_complete that stores whatever list it is given
HandleGenerationCompleteAlways ==
    /\ pc = "idle" /\ calls > 0 /\ ~delivered
    /\ delivered' = TRUE
    /\ IF TRUE
       THEN /\ player_shared' = ret.shared
            /\ player_files' = IF ret.shared THEN <<>> ELSE ret.files
            /\ current_audio_index' = 0
            /\ shown' = GetCurrentAudio(ret.files, 0)
       ELSE /\ shown' = 0
            /\ UNCHANGED <<player_files, player_shared, current_audio_index>>
    /\ UNCHANGED pipeline

\* handle_generation_complete(files, status), called with what the call
\* returned: set_generated_files stores the list object it is given and
\* resets the cursor
HandleGenerationComplete ==
    /\ pc = "idle" /\ calls > 0 /\ ~delivered
    /\ delivered' = TRUE
    /\ IF ~ret.absent /\ ret.files # <<>>
       THEN /\ player_shared' = ret.shared
            /\ player_files' = IF ret.shared THEN <<>> ELSE ret.files
            /\ current_audio_index' = 0
            /\ shown' = GetCurrentAudio(ret.files, 0)
       ELSE /\ shown' = 0
            /\ UNCHANGED <<player_files, player_shared, current_audio_index>>
    /\ UNCHANGED pipeline

\* handle_next: AudioPlayer.next_audio
HandleNext ==
    /\ IF PlayerList = <<>>
       THEN /\ shown' = 0
            /\ UNCHANGED current_audio_index
       ELSE /\ current_audio_index' = NextIndex(current_audio_index, Len(PlayerList))
            /\ shown' = GetCurrentAudio(PlayerList, current_audio_index')
    /\ UNCHANGED <<player_files, player_shared, delivered, pipeline>>

\* handle_previous: AudioPlayer.previous_audio
HandlePrevious ==
    /\ IF PlayerList = <<>>
       THEN /\ shown' = 0
            /\ UNCHANGED current_audio_index
       ELSE /\ current_audio_index' = PreviousIndex(current_audio_index, Len(PlayerList))
            /\ shown' = GetCurrentAudio(PlayerList, current_audio_index')
    /\ UNCHANGED <<player_files, player_shared, delivered, pipeline>>

\* on_track_selected("Section k"); k = 0 stands for an empty name and for
\* "No sections available"
OnTrackSelected(k) ==
    /\ IF k # 0 /\ PlayerList # <<>> /\ 0 <= k - 1 /\ k - 1 < Len(PlayerList)
       THEN /\ current_audio_index' = k - 1
            /\ shown' = GetCurrentAudio(PlayerList, k - 1)
       ELSE /\ shown' = 0
            /\ UNCHANGED current_audio_index
    /\ UNCHANGED <<player_files, player_shared, delivered, pipeline>>

\* a button callback runs the call and then handle_generation_complete
Ready == calls = 0 \/ delivered

NextUI ==
    \/ SetOutputDir
    \/ \E h \in BOOLEAN, v \in Voices, x \in RvcInputs :
         Ready /\ GenerateAudio(h, v, x[1], x[2])
    \/ GenLoopTop
    \/ GenLoopBody
    \/ \E sel \in SelectionInputs, v \in Voices, x \in RvcFlags :
         Ready /\ ContinueGeneration(sel, v, x[1], x[2])
    \/ ContLoopTop
    \/ ContLoopBody
    \/ \E n \in 0..NumSections, v \in Voices, x \in RvcFlags :
         Ready /\ RegenerateSection(n, v, x[1], x[2])
    \/ \E n \in 0..NumSections, v \in Voices, x \in RvcFlags :
         Ready /\ RegenerateFromSection(n, v, x[1], x[2])
    \/ RegenFromLoopTop
    \/ RegenFromLoopBody
    \/ StopGeneration
    \/ HandleGenerationComplete
    \/ HandleNext
    \/ HandlePrevious
    \/ \E k \in 0..(NumSections + 1) : OnTrackSelected(k)

\* AudioGenerator and AudioPlayer after construction; the playback handlers
\* are checked with collaborators that do not fail (no fault left to spend)
InitUI ==
    /\ is_generating = FALSE
    /\ current_section_index = 0
    /\ total_sections = 0
    /\ generated_files = <<>>
    /\ current_output_dir = "none"
    /\ temp = NoFiles
    /\ final = NoFiles
    /\ posix \in BOOLEAN
    /\ pc = "idle"
    /\ op = "none"
    /\ queue = <<>>
    /\ pos = 1
    /\ processed_count = 0
    /\ output_files = <<>>
    /\ rvcOn = FALSE
    /\ ret = NoResult
    /\ calls = 0
    /\ faults = MaxFaults
    /\ selected = {}
    /\ files0 = <<>>
    /\ index0 = 0
    /\ stepped = <<>>
    /\ synthRes = NoSynth
    /\ convRes = NoSynth
    /\ stopAt = 0
    /\ stopCalled = FALSE
    /\ resumed = FALSE
    /\ player_files = <<>>
    /\ player_shared = FALSE
    /\ current_audio_index = 0
    /\ shown = 0
    /\ delivered = FALSE
    /\ InitApart

SpecUI == InitUI /\ [][NextUI]_vars

\* ------------------------------------------------ AudiobookUI (ui.py)
\* AudiobookUI keeps the job and the playback cursor in one object: its
\* generated_files, is_generating, current_section_index, total_sections,
\* current_output_dir and current_audio_index are the variables of the same
\* names, and its one list serves both the job and the player.

\* get_existing_audio_files: the section_<n>.wav of the directory, sorted by n
GetExistingAudioFiles(f) == SelectSeq(FullSelection, LAMBDA n : f[n] # "none")

\* get_current_audio: None (0) on an empty list, IndexError (-1) when the
\* cursor is past the end
UiGetCurrentAudio(files, idx) ==
    IF files = <<>> THEN 0
    ELSE IF idx + 1 > Len(files) THEN -1
    ELSE files[idx + 1]

\* generate_audio of ui.py, the body of the for loop for section n: a failed
\* synthesis or a missing temp file skips the section; then the statements
\* of the regeneration step (unlink before rename)
UiGenStep(n, rv, o, c) ==
    LET t1 == SynthWrite(temp, n, o)
    IN IF ~SynthReturns(o) \/ t1[n] = "none"
       THEN StepResult(t1, final, FALSE, FALSE, "none")
       ELSE RegenStep(n, rv, o, c)

\* what the handlers of ui.py leave alone
uiRest == <<posix, book, apart, calls, op, selected, files0, index0, resumed, player_files,
            player_shared, faults, trace, locals, pc, ret>>

\* handle_file_upload: load_file(file, force_create); create_output_directory
\* removes an existing directory when force_create is set
UiLoadFile(force_create) ==
    /\ pc = "idle"
    /\ current_output_dir' = "dir"
    /\ temp' = IF force_create THEN NoFiles ELSE temp
    /\ final' = IF force_create THEN NoFiles ELSE final
    /\ generated_files' = GetExistingAudioFiles(final')
    /\ current_audio_index' =
         IF generated_files' # <<>> THEN 0 ELSE current_audio_index
    /\ shown' = UiGetCurrentAudio(generated_files', current_audio_index')
    /\ concat_temp' = IF force_create THEN NoAudio ELSE concat_temp
    /\ concat_final' = IF force_create THEN NoAudio ELSE concat_final
    /\ UNCHANGED <<is_generating, current_section_index, total_sections, stopAt,
                   stopCalled, delivered, posix, apart, calls, op, selected,
                   files0, index0, resumed, player_files, player_shared, faults,
                   trace, locals, pc, ret>>

\* generate_audio of ui.py up to its for loop
UiGenerateAudio(sel, voice, use_rvc, model) ==
    /\ Enter("ui_generate", sel)
    /\ NoStepYet
    /\ KeepPlayerList
    /\ UNCHANGED <<disk, faults>>
    /\ IF sel = <<>> \/ voice = ""
       THEN /\ Leave(Result(<<>>, TRUE, FALSE, "rejected", 0))
            /\ UNCHANGED state
       ELSE /\ total_sections' = Len(sel)
            /\ generated_files' = <<>>
            /\ is_generating' = TRUE
            /\ current_section_index' = 0
            /\ StartLoop(SortAscending(sel), use_rvc /\ model # "")

\* generate_audio of ui.py: the head of an iteration, and the return after
\* the loop; a stopped job returns None
UiGenLoopTop ==
    /\ pc = "top" /\ op = "ui_generate"
    /\ UNCHANGED <<state, disk, trace, faults, stopAt, stopCalled, frame>>
    /\ IF pos > Len(queue)
       THEN IF processed_count > 0
            THEN Leave(Result(generated_files, FALSE, TRUE, "success", processed_count))
            ELSE Leave(Result(<<>>, FALSE, FALSE, "all_failed", 0))
       ELSE IF StopObserved(is_generating)
       THEN Leave(Result(<<>>, TRUE, FALSE, "stopped", processed_count))
       ELSE /\ pc' = "step"
            /\ UNCHANGED <<locals, ret>>

\* generate_audio of ui.py: one per-section step; an exception returns None
UiGenLoopBody ==
    /\ pc = "step" /\ op = "ui_generate"
    /\ UNCHANGED <<is_generating, total_sections, stopAt, stopCalled, frame>>
    /\ IF PathRaises
       THEN /\ Leave(Result(<<>>, TRUE, FALSE, "error", processed_count))
            /\ UNCHANGED <<generated_files, current_section_index, disk, trace, faults>>
       ELSE \E o \in SynthOutcomes, c \in ConvOutcomes :
              LET n == queue[pos]
                  r == UiGenStep(n, rvcOn, o, c)
              IN /\ Charge(o, c, r.conv # "none")
                 /\ temp' = r.temp
                 /\ final' = r.final
                 /\ Record(n, o, r)
                 /\ NextIteration
                 /\ generated_files' =
                      IF r.commit THEN Append(generated_files, n) ELSE generated_files
                 /\ current_section_index' =
                      IF r.commit THEN n ELSE current_section_index
                 /\ processed_count' =
                      IF r.commit THEN processed_count + 1 ELSE processed_count
                 /\ UNCHANGED output_files

\* regenerate_section of ui.py: the statements of
\* AudioGenerator.regenerate_section
UiRegenerateSection(n, voice, use_rvc, model) ==
    RegenerateSection(n, voice, use_rvc, model)

\* handle_generation_complete of ui.py, called with what the call returned
UiHandleGenerationComplete ==
    /\ pc = "idle" /\ calls > 0 /\ ~delivered
    /\ delivered' = TRUE
    /\ IF ~ret.absent /\ ret.files # <<>>
       THEN /\ generated_files' = ret.files
            /\ current_audio_index' = 0
            /\ shown' = UiGetCurrentAudio(ret.files, 0)
       ELSE /\ shown' = 0
            /\ UNCHANGED <<generated_files, current_audio_index>>
    /\ UNCHANGED <<is_generating, current_section_index, total_sections, disk,
                   current_output_dir, stopAt, stopCalled, uiRest>>

\* handle_stop_generation of ui.py: stop_generation clears the flag and reads
\* the list again from the directory, then get_current_audio is called on a
\* list that is not empty
UiHandleStopGeneration ==
    /\ is_generating' = FALSE
    /\ generated_files' =
         IF current_output_dir # "none" THEN GetExistingAudioFiles(final)
         ELSE generated_files
    /\ shown' = UiGetCurrentAudio(generated_files', current_audio_index)
    /\ stopAt' = IF pc = "step" /\ stopAt = 0 THEN queue[pos] ELSE stopAt
    /\ stopCalled' = (stopCalled \/ pc # "idle")
    /\ UNCHANGED <<current_section_index, total_sections, disk, current_output_dir,
                   current_audio_index, delivered, uiRest>>

\* handle_next of ui.py: next_audio
UiHandleNext ==
    /\ IF generated_files = <<>>
       THEN /\ shown' = 0
            /\ UNCHANGED current_audio_index
       ELSE /\ current_audio_index' = NextIndex(current_audio_index, Len(generated_files))
            /\ shown' = UiGetCurrentAudio(generated_files, current_audio_index')
    /\ UNCHANGED <<state, disk, current_output_dir, stopAt, stopCalled, delivered, uiRest>>

\* handle_previous of ui.py: previous_audio
UiHandlePrevious ==
    /\ IF generated_files = <<>>
       THEN /\ shown' = 0
            /\ UNCHANGED current_audio_index
       ELSE /\ current_audio_index' = PreviousIndex(current_audio_index, Len(generated_files))
            /\ shown' = UiGetCurrentAudio(generated_files, current_audio_index')
    /\ UNCHANGED <<state, disk, current_output_dir, stopAt, stopCalled, delivered, uiRest>>

\* the values of the sections CheckboxGroup: no label twice
CheckboxSelections == {sel \in SelectionInputs : Cardinality(Range(sel)) = Len(sel)}

NextAudiobookUI ==
    \/ \E force_create \in BOOLEAN : UiLoadFile(force_create)
    \/ \E sel \in CheckboxSelections, v \in Voices, x \in RvcFlags :
         Ready /\ UiGenerateAudio(sel, v, x[1], x[2])
    \/ UiGenLoopTop
    \/ UiGenLoopBody
    \/ \E n \in 0..NumSections, v \in Voices, x \in RvcFlags :
         Ready /\ UiRegenerateSection(n, v, x[1], x[2])
    \/ UiHandleGenerationComplete
    \/ UiHandleStopGeneration
    \/ UiHandleNext
    \/ UiHandlePrevious

\* AudiobookUI after construction, with collaborators that do not fail
SpecAudiobookUI == InitUI /\ [][NextAudiobookUI]_vars

\* ------------------------------- concatenate_audio_files (AudioPlayer, ui.py)
\* everything but the playback list, the audiobook files, the directory of the
\* player, the last concatenation, the text store and the directory listing
core == <<state, disk, locals, trace, pc, op, ret, calls, faults, selected,
          files0, index0, stopAt, stopCalled, resumed, posix, current_output_dir,
          delivered, shown>>
\* TTSProcessor.sections and the last split_text
store == <<text, sections, section_count>>
\* the last get_existing_audio_files
listing == <<output_dir, existing_files>>

\* AudioSegment.from_wav raises on a file that is missing, and may raise on
\* any file (d = "fail")
DecodeRaises(files, f, d) ==
    d = "fail" \/ \E i \in DOMAIN files : f[files[i]] = "none"

RECURSIVE Combined(_, _)
\* combined = AudioSegment.empty(); for audio_file in files: combined += audio
Combined(files, f) ==
    IF files = <<>> THEN <<>>
    ELSE Combined(SubSeq(files, 1, Len(files) - 1), f)
         \o <<[section |-> files[Len(files)], content |-> f[files[Len(files)]]]>>

\* the outcome of a concatenation: the pair returned and the two files
Concatenated(absent, msg, t, fin) ==
    [absent |-> absent, msg |-> msg, temp |-> t, final |-> fin]

\* a try block that exports to complete_audiobook.wav itself
ConcatBodyInPlace(files, dir, f, t, fin, d, e) ==
    IF dir = "none" THEN Concatenated(TRUE, "error", t, fin)
    ELSE IF DecodeRaises(files, f, d) THEN Concatenated(TRUE, "error", t, fin)
    ELSE IF e = "fail" THEN Concatenated(TRUE, "error", t, fin)
    ELSE IF e = "fail_partial"
    THEN Concatenated(TRUE, "error", t, [kind |-> "partial", audio |-> <<>>])
    ELSE Concatenated(FALSE, "ok", t, FullAudio(Combined(files, f)))

\* the try block of concatenate_audio_files: the two paths (a TypeError on an
\* unset directory), the decoding of every file in list order, the export
\* to temp_concatenated.wav (e), the unlink of an existing
\* complete_audiobook.wav and the rename; any exception is caught
ConcatBody(files, dir, f, t, fin, d, e) ==
    IF dir = "none" THEN Concatenated(TRUE, "error", t, fin)
    ELSE IF DecodeRaises(files, f, d) THEN Concatenated(TRUE, "error", t, fin)
    ELSE IF e = "fail" THEN Concatenated(TRUE, "error", t, fin)
    ELSE IF e = "fail_partial"
    THEN Concatenated(TRUE, "error", [kind |-> "partial", audio |-> <<>>], fin)
    ELSE Concatenated(FALSE, "ok", NoAudio, FullAudio(Combined(files, f)))

\* a concatenate_audio_files without its guard
PlayerConcatenateUnguarded(files, dir, f, t, fin, d, e) ==
    ConcatBody(files, dir, f, t, fin, d, e)

\* AudioPlayer.concatenate_audio_files
PlayerConcatenate(files, dir, f, t, fin, d, e) ==
    IF files = <<>> \/ dir = "none"
    THEN Concatenated(TRUE, "nofiles", t, fin)
    ELSE ConcatBody(files, dir, f, t, fin, d, e)

\* AudiobookUI.concatenate_audio_files: the guard looks at the list only
UiConcatenate(files, dir, f, t, fin, d, e) ==
    IF files = <<>>
    THEN Concatenated(TRUE, "nofiles", t, fin)
    ELSE ConcatBody(files, dir, f, t, fin, d, e)

\* AudioPlayer.set_output_dir
PlayerSetOutputDir(dir) ==
    /\ player_output_dir' = dir
    /\ UNCHANGED <<core, player_files, player_shared, current_audio_index, book,
                   concat_ret, store, listing>>

\* AudioPlayer.set_generated_files
PlayerSetGeneratedFiles(files) ==
    /\ player_files' = files
    /\ player_shared' = FALSE
    /\ current_audio_index' = 0
    /\ UNCHANGED <<core, book, player_output_dir, concat_ret, store, listing>>

\* handle_concatenation of ui_handlers.py
PlayerConcatenateAudioFiles(d, e) ==
    LET r == PlayerConcatenate(PlayerList, player_output_dir, final, concat_temp,
                               concat_final, d, e)
    IN /\ concat_temp' = r.temp
       /\ concat_final' = r.final
       /\ concat_ret' = ConcatResult("player", r.absent, r.msg, ~concat_ret.odd)
       /\ UNCHANGED <<core, player_files, player_shared, current_audio_index,
                      player_output_dir, store, listing>>

\* handle_concatenation of ui.py
UiConcatenateAudioFiles(d, e) ==
    LET r == UiConcatenate(generated_files, current_output_dir, final,
                           concat_temp, concat_final, d, e)
    IN /\ concat_temp' = r.temp
       /\ concat_final' = r.final
       /\ concat_ret' = ConcatResult("ui", r.absent, r.msg, ~concat_ret.odd)
       /\ UNCHANGED <<core, player_files, player_shared, current_audio_index,
                      player_output_dir, store, listing>>

NextConcat ==
    \/ \E dir \in {"none", "dir"} : PlayerSetOutputDir(dir)
    \/ \E files \in SelectionInputs : PlayerSetGeneratedFiles(files)
    \/ \E d \in DecodeOutcomes, e \in ExportOutcomes :
         PlayerConcatenateAudioFiles(d, e)
    \/ \E force_create \in BOOLEAN : UiLoadFile(force_create)
    \/ \E d \in DecodeOutcomes, e \in ExportOutcomes :
         UiConcatenateAudioFiles(d, e)

\* the objects as constructed, in an output directory that holds the section
\* files of earlier sessions
InitConcat ==
    /\ is_generating = FALSE
    /\ current_section_index = 0
    /\ total_sections = 0
    /\ generated_files = <<>>
    /\ current_output_dir = "none"
    /\ temp = NoFiles
    /\ final \in [Sections -> {"none", "raw"}]
    /\ posix \in BOOLEAN
    /\ pc = "idle"
    /\ op = "none"
    /\ queue = <<>>
    /\ pos = 1
    /\ processed_count = 0
    /\ output_files = <<>>
    /\ rvcOn = FALSE
    /\ ret = NoResult
    /\ calls = 0
    /\ faults = 0
    /\ selected = {}
    /\ files0 = <<>>
    /\ index0 = 0
    /\ stepped = <<>>
    /\ synthRes = NoSynth
    /\ convRes = NoSynth
    /\ stopAt = 0
    /\ stopCalled = FALSE
    /\ resumed = FALSE
    /\ player_files = <<>>
    /\ player_shared = FALSE
    /\ current_audio_index = 0
    /\ shown = 0
    /\ delivered = FALSE
    /\ InitApart

SpecConcat == InitConcat /\ [][NextConcat]_vars

\* ------------------------------------------------- TTSProcessor.split_text
RECURSIVE PySplit(_, _)
\* str.split('\n\n'): cut at every occurrence of the separator found from the
\* left, occurrences not overlapping; cur is the chunk being read
PySplit(t, cur) ==
    IF t = <<>> THEN <<cur>>
    ELSE IF Len(t) >= 2 /\ t[1] = NL /\ t[2] = NL
    THEN <<cur>> \o PySplit(SubSeq(t, 3, Len(t)), <<>>)
    ELSE PySplit(Tail(t), Append(cur, Head(t)))

RECURSIVE LStrip(_)
LStrip(c) ==
    IF c # <<>> /\ Head(c) \in Whitespace THEN LStrip(Tail(c)) ELSE c

RECURSIVE RStrip(_)
RStrip(c) ==
    IF c # <<>> /\ c[Len(c)] \in Whitespace
    THEN RStrip(SubSeq(c, 1, Len(c) - 1))
    ELSE c

\* str.strip()
Strip(c) == RStrip(LStrip(c))

\* a split_text that keeps every chunk
SplitTextKeepsEmpty(t) ==
    LET chunks == PySplit(t, <<>>)
    IN [i \in DOMAIN chunks |-> Strip(chunks[i])]

\* [section.strip() for section in text.split('\n\n') if section.strip()]
SplitText(t) ==
    LET chunks == PySplit(t, <<>>)
        stripped == [i \in DOMAIN chunks |-> Strip(chunks[i])]
    IN SelectSeq(stripped, LAMBDA c : c # <<>>)

\* split_text(text)
SplitTextCall(t) ==
    /\ text' = t
    /\ sections' = SplitText(t)
    /\ section_count' = Len(sections')
    /\ UNCHANGED <<core, player_files, player_shared, current_audio_index, book,
                   player_output_dir, concat_ret, listing>>

NextSplit == \E t \in Texts : SplitTextCall(t)

SpecSplit == InitUI /\ [][NextSplit]_vars

\* ------------------------------------------------ get_existing_audio_files
\* output_dir.glob("section_*.wav")
GlobSectionWav(name) ==
    /\ Len(name) >= 3
    /\ name[1] = "section"
    /\ name[2] = "_"
    /\ name[Len(name)] = ".wav"

\* file.stem: the name without its last suffix
Stem(name) == SubSeq(name, 1, Len(name) - 1)

RECURSIVE SplitUnderscore(_, _)
\* str.split('_')
SplitUnderscore(t, cur) ==
    IF t = <<>> THEN <<cur>>
    ELSE IF Head(t) = "_" THEN <<cur>> \o SplitUnderscore(Tail(t), <<>>)
    ELSE SplitUnderscore(Tail(t), Append(cur, Head(t)))

\* int(s) returns: s is a non-empty run of decimal digits (the names tried
\* hold no sign and no white space); it raises ValueError otherwise
IntParses(part) ==
    part # <<>> /\ \A i \in DOMAIN part : part[i] \in Range(DigitChars)

DigitValue(c) == (CHOOSE i \in DOMAIN DigitChars : DigitChars[i] = c) - 1

RECURSIVE IntValue(_)
\* int(s) of a run of decimal digits
IntValue(part) ==
    IF part = <<>> THEN 0
    ELSE IntValue(SubSeq(part, 1, Len(part) - 1)) * Len(DigitChars)
         + DigitValue(part[Len(part)])

\* the place of a token in the order of strings
TokenRank(tok) == CHOOSE i \in DOMAIN TokenOrder : TokenOrder[i] = tok

RECURSIVE PathLess(_, _)
\* a < b on the strings of two names
PathLess(a, b) ==
    IF a = <<>> THEN b # <<>>
    ELSE IF b = <<>> THEN FALSE
    ELSE IF Head(a) = Head(b) THEN PathLess(Tail(a), Tail(b))
    ELSE TokenRank(Head(a)) < TokenRank(Head(b))

\* a < b on the tuples (section_num, str(file))
EntryLess(a, b) ==
    a.num < b.num \/ (a.num = b.num /\ PathLess(a.name, b.name))

RECURSIVE SortedEntries(_)
\* sorted(audio_files)
SortedEntries(S) ==
    IF S = {} THEN <<>>
    ELSE LET least == CHOOSE a \in S : \A b \in S \ {a} : EntryLess(a, b)
         IN <<least>> \o SortedEntries(S \ {least})

\* the loop over the glob: int(file.stem.split('_')[1]), a ValueError or an
\* IndexError skips the file
AudioFileEntries(names) ==
    {[num |-> IntValue(SplitUnderscore(Stem(name), <<>>)[2]), name |-> name] :
       name \in {m \in names : /\ GlobSectionWav(m)
                               /\ Len(SplitUnderscore(Stem(m), <<>>)) >= 2
                               /\ IntParses(SplitUnderscore(Stem(m), <<>>)[2])}}

\* get_existing_audio_files(output_dir)
ExistingAudioFiles(d) ==
    IF d.dir # "dir" THEN <<>>
    ELSE LET sorted == SortedEntries(AudioFileEntries(d.names))
         IN [i \in DOMAIN sorted |-> sorted[i].name]

\* get_existing_audio_files(d)
GetExistingAudioFilesCall(d) ==
    /\ output_dir' = d
    /\ existing_files' = ExistingAudioFiles(d)
    /\ UNCHANGED <<core, player_files, player_shared, current_audio_index, book,
                   player_output_dir, concat_ret, store>>

NextListing == \E d \in DirectoryInputs : GetExistingAudioFilesCall(d)

SpecListing == InitUI /\ [][NextListing]_vars

\* ------------------------------------------------------------------- claims
Last(s) == s[Len(s)]
Job == op \in {"generate", "continue"}
\* the entries appended to generated_files by the running call:
\* continue_generation appends to the list it found, generate_audio to a new one
Appended ==
    IF op = "continue"
    THEN SubSeq(generated_files, Len(files0) + 1, Len(generated_files))
    ELSE generated_files

\* C1: resume correctness.  A continue_generation with the full selection
\* that follows a generate_audio stopped at lastCompletedIndex = k runs the
\* per-section step for k+1, k+2, ... only, in this order; generated_files is
\* the earlier list followed by the sections committed by this call, strictly
\* ascending; and when the call finishes its loop every section above k was
\* stepped and the list returned is the earlier list followed by them.
C1_ResumeCorrect ==
    (op = "continue" /\ resumed /\ selected = Sections) =>
        /\ \A i \in DOMAIN stepped : stepped[i] = index0 + i
        /\ \E j \in 0..Len(stepped) :
             generated_files = files0 \o SubSeq(stepped, 1, j)
        /\ StrictlyAscending(generated_files)
        /\ (pc = "idle" /\ ret.msg = "success") =>
             /\ Len(stepped) = NumSections - index0
             /\ generated_files = files0 \o stepped
             /\ ret.files = generated_files

\* a job stopped after {1,2} was continued and finished with every section
C1_Witness ==
    /\ pc = "idle" /\ op = "continue" /\ resumed /\ selected = Sections
    /\ ret.msg = "success"
    /\ files0 = <<1, 2>> /\ index0 = 2
    /\ generated_files = FullSelection

\* C2: cooperative stop.  When stop_generation was called while the step for
\* section i of generate_audio or continue_generation was in flight, that
\* step is carried out (it is the last step of the call), no step is started
\* for a later section, section i is committed if its final file was produced,
\* and the call (unless the step raised) returns generated_files, with i in it
\* when i was committed.
C2_CooperativeStop ==
    (Job /\ stopAt # 0) =>
        /\ \A i \in DOMAIN stepped : stepped[i] <= stopAt
        /\ (pc # "step" /\ ret.msg # "error") =>
             /\ stepped # <<>> /\ Last(stepped) = stopAt
             /\ final[stopAt] # "none" => stopAt \in Range(Appended)
        /\ (pc = "idle" /\ ret.msg # "error") =>
             /\ ret.msg \in {"stopped", "success", "all_failed"}
             /\ ret.files = generated_files

\* continue_generation was stopped during a step that was not its last one
\* and returned the list with that section
C2_Witness ==
    /\ pc = "idle" /\ op = "continue" /\ ret.msg = "stopped"
    /\ stopAt # 0 /\ stopAt < NumSections
    /\ stopAt \in Range(ret.files)

\* C3: file-pair invariant.  After any per-section step, for the section n it
\* touched, temp_section_<n>.wav and section_<n>.wav do not both exist, and
\* one of them exists if generate_speech reported success for n.
C3_FilePair ==
    \A n \in Range(stepped) :
        /\ ~(temp[n] # "none" /\ final[n] # "none")
        /\ synthRes[n] \in {"ok", "empty"} => (temp[n] # "none" \/ final[n] # "none")

\* C4: in generate_audio a section whose synthesis reports failure is skipped
\* and does not end the job: it is not in generated_files, a failed synthesis
\* is never what raised, a job that ran through its loop has stepped every
\* section and committed, in order, exactly those for which generate_speech
\* wrote a file, and it reports success exactly when a section was committed,
\* with the list of the committed sections and their number.
C4_GenerateSkipsFailed ==
    op = "generate" =>
        /\ \A n \in Sections : synthRes[n] = "fail" => n \notin Range(generated_files)
        /\ (pc = "idle" /\ ret.msg = "error" /\ stepped # <<>>) =>
             synthRes[Last(stepped)] # "fail"
        /\ (pc = "idle" /\ ret.msg \in {"success", "all_failed"}) =>
             /\ stepped = FullSelection
             /\ generated_files =
                  SelectSeq(FullSelection, LAMBDA n : synthRes[n] = "ok")
             /\ ret.msg = "success" <=> generated_files # <<>>
             /\ ret.msg = "success" =>
                  /\ ret.files = generated_files
                  /\ ret.count = Len(generated_files)

\* synthesis of section 2 failed, the job committed every other section
C4_Witness ==
    /\ pc = "idle" /\ op = "generate" /\ ret.msg = "success"
    /\ synthRes[2] = "fail"
    /\ ret.files = SelectSeq(FullSelection, LAMBDA x : x # 2)
    /\ ret.count = NumSections - 1

\* C5: in continue_generation a section whose synthesis reports failure is
\* skipped and does not end the job: it is not appended to generated_files and
\* the call does not return an error but generated_files.
C5_ContinueSkipsFailed ==
    (op = "continue" /\ \E n \in Range(stepped) : synthRes[n] = "fail") =>
        /\ \A n \in Range(stepped) : synthRes[n] = "fail" => n \notin Range(Appended)
        /\ pc = "idle" => (ret.msg # "error" /\ ret.files = generated_files)

\* C6: conversion fallback.  In every operation, after a step in which
\* synthesis succeeded and convert_audio reported failure, section_<n>.wav
\* holds the unconverted synthesis and temp_section_<n>.wav does not exist.
C6_ConversionFallback ==
    \A n \in Range(stepped) :
        (synthRes[n] = "ok" /\ convRes[n] = "fail") =>
            (final[n] = "raw" /\ temp[n] = "none")

\* C7: commit rule.  generate_audio and continue_generation append a section
\* to generated_files only as its path, together with setting
\* current_section_index to it and counting it, and only when section_<n>.wav
\* exists after the step; a step that leaves no final file records nothing and
\* does not move current_section_index, which otherwise changes only by the
\* reset of generate_audio.
C7_CommitRule ==
    [][ /\ (op' \in {"generate", "continue"}
              /\ Len(generated_files') > Len(generated_files)) =>
             LET n == Last(generated_files')
             IN /\ generated_files' = Append(generated_files, n)
                /\ final'[n] # "none"
                /\ current_section_index' = n
                /\ processed_count' = processed_count + 1
        /\ (Job /\ pc = "step" /\ final'[queue[pos]] = "none") =>
             /\ generated_files' = generated_files
             /\ current_section_index' = current_section_index
        /\ (op' \in {"generate", "continue"}
              /\ current_section_index' # current_section_index) =>
             \/ Len(generated_files') > Len(generated_files)
             \/ (current_section_index' = 0 /\ generated_files' = <<>>)
      ]_vars

\* generate_audio left section 1 without a final file and unrecorded, then
\* committed section 2
C7_Witness ==
    /\ op = "generate" /\ pc = "top"
    /\ stepped = <<1, 2>>
    /\ final[1] = "none" /\ final[2] # "none"
    /\ generated_files = <<2>>
    /\ current_section_index = 2 /\ processed_count = 1

\* C8: when an exception ends the loop of generate_audio or
\* continue_generation, the call returns an error and is_generating is false.
C8_ErrorClearsFlag ==
    (pc = "idle" /\ Job /\ ret.msg = "error") => ~is_generating

\* C9: when generate_audio or continue_generation has run through its loop,
\* is_generating is false on return.
C9_ExhaustedIsIdle ==
    (pc = "idle" /\ Job /\ ret.msg \in {"success", "all_failed", "no_new"}) =>
        ~is_generating

\* C10: when an exception ends the loop of generate_audio or
\* continue_generation, the call returns the sections committed so far.
C10_ErrorReturnsPartial ==
    (pc = "idle" /\ Job /\ ret.msg = "error") => ret.files = generated_files

\* a step that enters a call: every entry counts the call
Entry(name) == op' = name /\ calls' = calls + 1

\* C11: a call of generate_audio, continue_generation, regenerate_section or
\* regenerate_from_section that rejects its input with a message leaves
\* is_generating, current_section_index, total_sections, generated_files and
\* the files as they were before the call.
C11_RejectionsMutateNothing ==
    [][ (calls' = calls + 1 /\ ret'.msg = "rejected") =>
            UNCHANGED <<is_generating, current_section_index, total_sections,
                        generated_files, temp, final>>
      ]_vars

\* a step that is neither the entry of a call, nor a move of a loop, nor
\* set_output_dir: a call of stop_generation
StopStep ==
    /\ pc' = pc
    /\ calls' = calls
    /\ current_output_dir' = current_output_dir

\* C12: stop_generation sets is_generating to false and changes nothing else:
\* current_section_index, generated_files, total_sections and every file stay,
\* with or without a running job; called when the flag is already false (a
\* second call in a row) it leaves the whole state as it is.
C12_StopChangesOnlyFlag ==
    [][ StopStep =>
          /\ ~is_generating'
          /\ UNCHANGED <<current_section_index, total_sections, generated_files,
                         temp, final>>
          /\ ~is_generating => UNCHANGED <<state, disk>>
      ]_vars

\* stop_generation was called during the second step of a job that had
\* committed section 1: the index and the list are still there
C12_Witness ==
    /\ pc = "step" /\ stopCalled /\ stopAt = 2 /\ ~is_generating
    /\ current_section_index = 1 /\ generated_files = <<1>>
    /\ final[1] # "none"

\* C13: continue_generation returns at once with generated_files and the
\* nothing-to-do message exactly when no selected section number is greater
\* than current_section_index; then generate_speech is not called and
\* is_generating, current_section_index, total_sections, generated_files and
\* the files are unchanged.
C13_NothingToDo ==
    [][ (Entry("continue") /\ ret'.msg # "rejected") =>
          /\ ret'.msg = "nothing_to_do" <=>
               \A n \in selected' : n <= current_section_index
          /\ ret'.msg = "nothing_to_do" =>
               /\ pc' = "idle"
               /\ ~ret'.absent /\ ret'.files = generated_files
               /\ stepped' = <<>>
               /\ UNCHANGED <<state, disk, faults>>
      ]_vars

\* after a job that committed every section, and left is_generating set, a
\* continue_generation with the full selection had nothing to do
C13_Witness ==
    /\ pc = "idle" /\ op = "continue" /\ ret.msg = "nothing_to_do"
    /\ selected = Sections
    /\ ret.files = FullSelection
    /\ current_section_index = NumSections
    /\ is_generating

\* the number of entries of generated_files for section n
Occurrences(n) == Cardinality({i \in DOMAIN generated_files : generated_files[i] = n})

\* C14: after a regenerate_section(i) that succeeded, generated_files holds the
\* path of section_<i>.wav exactly once.
C14_RegenerateUpdatesList ==
    (pc = "idle" /\ op = "regenerate" /\ ret.msg = "success") =>
        \A n \in selected :
            (synthRes[n] = "ok" /\ final[n] # "none") => Occurrences(n) = 1

\* C15: regenerate_section(i) leaves is_generating, current_section_index and
\* the files of every other section unchanged; it runs its step whatever the
\* flag and the index are; and after a successful synthesis section_<i>.wav is
\* what the parameters of this call produce: the fresh unconverted synthesis
\* when conversion is off or failed, the converted one when it succeeded, with
\* no temp file left.
C15_RegenerateTouchesOnlyItsSection ==
    [][ Entry("regenerate") =>
          /\ UNCHANGED <<is_generating, current_section_index>>
          /\ \A m \in Sections \ selected' :
               temp'[m] = temp[m] /\ final'[m] = final[m]
          /\ \A n \in selected' :
               /\ (ret'.msg # "rejected" /\ current_output_dir = "dir") =>
                    stepped' = <<n>>
               /\ (synthRes'[n] = "ok" /\ convRes'[n] \in {"none", "fail"}) =>
                    (final'[n] = "raw" /\ temp'[n] = "none")
               /\ (synthRes'[n] = "ok" /\ convRes'[n] = "ok") =>
                    (final'[n] = "conv" /\ temp'[n] = "none")
      ]_vars

\* after a full run with conversion, regenerate_section(2) without conversion
\* replaced section_2.wav only, while is_generating was set
C15_Witness ==
    /\ pc = "idle" /\ op = "regenerate" /\ ret.msg = "success"
    /\ selected = {2} /\ convRes[2] = "none"
    /\ final = [n \in Sections |-> IF n = 2 THEN "raw" ELSE "conv"]
    /\ is_generating /\ current_section_index = NumSections

\* C16: a regenerate_from_section(i) during which stop_generation was not
\* called has run the per-section step for i, i+1, ... up to the last section.
C16_RegenerateFromRunsToEnd ==
    (pc = "idle" /\ op = "regenerate_from" /\ ret.msg \notin {"rejected", "error"}
       /\ ~stopCalled) =>
        \A i \in selected :
            stepped = [k \in 1..(NumSections - i + 1) |-> i + k - 1]

\* the sections committed by the regenerate_from_section that has returned:
\* those it stepped whose synthesis reported success and whose final file exists
CommittedByRegenerateFrom ==
    SelectSeq(stepped, LAMBDA n : synthRes[n] # "fail" /\ final[n] # "none")

\* C17: the list returned by regenerate_from_section holds exactly the sections
\* committed during this call, in ascending order, also when there are none.
C17_RegenerateFromReturnsOwn ==
    (pc = "idle" /\ op = "regenerate_from" /\ ret.msg # "rejected") =>
        /\ ret.files = CommittedByRegenerateFrom
        /\ StrictlyAscending(ret.files)

\* C18: playback cursor bounds.  Whenever the list of the AudioPlayer is not
\* empty, 0 <= current_audio_index < len(list); next_audio from the last item
\* goes to the first and otherwise one up, previous_audio from the first goes
\* to the last and otherwise one down; on_track_selected moves the cursor only
\* to an index of the list; set_generated_files resets the cursor to 0; on an
\* empty list next and previous return None and leave the cursor where it is.
C18_PlaybackIndexInBounds ==
    /\ [](PlayerList # <<>> =>
            (0 <= current_audio_index /\ current_audio_index < Len(PlayerList)))
    /\ [][ /\ (HandleNext /\ PlayerList # <<>>) =>
                /\ current_audio_index' =
                     IF current_audio_index = Len(PlayerList) - 1 THEN 0
                     ELSE current_audio_index + 1
                /\ shown' = PlayerList[current_audio_index' + 1]
           /\ (HandlePrevious /\ PlayerList # <<>>) =>
                /\ current_audio_index' =
                     IF current_audio_index = 0 THEN Len(PlayerList) - 1
                     ELSE current_audio_index - 1
                /\ shown' = PlayerList[current_audio_index' + 1]
           /\ ((HandleNext \/ HandlePrevious) /\ PlayerList = <<>>) =>
                (shown' = 0 /\ current_audio_index' = current_audio_index)
           /\ (HandleGenerationComplete
                 /\ <<player_files, player_shared>>' # <<player_files, player_shared>>) =>
                current_audio_index' = 0
         ]_vars

\* the player holds the list of a job that was continued to the last section
\* and shows its last item
C18_Witness ==
    /\ op = "continue" /\ player_shared
    /\ PlayerList = FullSelection
    /\ current_audio_index = NumSections - 1
    /\ shown = NumSections

\* C19: in AudiobookUI the cursor is reset whenever the list is replaced, so
\* that get_current_audio never indexes past the end of the list: no handler
\* gets an IndexError from it.
C19_CurrentAudioInRange == shown # -1

\* C20: the list stored in the AudioPlayer by handle_generation_complete is a
\* copy: no step other than handle_generation_complete changes its length or
\* its contents.
C20_PlayerListIsACopy ==
    [][ ~HandleGenerationComplete => PlayerList' = PlayerList ]_vars

\* a step that is a call of concatenate_audio_files
ConcatStep == concat_ret'.odd # concat_ret.odd
\* the list and the directory of the object the call was made on
ConcatList == IF concat_ret'.who = "player" THEN PlayerList ELSE generated_files
ConcatDir ==
    IF concat_ret'.who = "player" THEN player_output_dir ELSE current_output_dir

\* C21: concatenate_audio_files called with an empty list or with no output
\* directory returns no path and a message, and leaves temp_concatenated.wav
\* and complete_audiobook.wav as they were (neither created nor modified).
C21_EmptyConcatenationFails ==
    [][(ConcatStep /\ (ConcatList = <<>> \/ ConcatDir = "none"))
         => /\ concat_ret'.absent
            /\ concat_ret'.msg \in {"nofiles", "error"}
            /\ concat_temp' = concat_temp
            /\ concat_final' = concat_final]_vars

\* the AudioPlayer was asked to concatenate a list with no directory set,
\* an audiobook of an earlier call standing in the directory
C21_Witness ==
    /\ concat_ret.who = "player"
    /\ concat_ret.msg = "nofiles"
    /\ PlayerList # <<>>
    /\ player_output_dir = "none"
    /\ concat_final.kind = "full"

\* the audio of every file of the list, in list order
InListOrder(files) ==
    [i \in DOMAIN files |-> [section |-> files[i], content |-> final[files[i]]]]

\* C22: complete_audiobook.wav never holds a partly written export; a
\* concatenation that returns a path leaves in it the audio of every file of
\* the list in list order and leaves no temp_concatenated.wav; a
\* concatenation that fails (decoding or export) leaves
\* complete_audiobook.wav as it was.
C22_ConcatenationReplacesWhole ==
    /\ [](concat_final.kind # "partial")
    /\ [][ConcatStep
            => /\ ~concat_ret'.absent
                    => /\ concat_final' = FullAudio(InListOrder(ConcatList))
                       /\ concat_temp'.kind = "none"
               /\ concat_ret'.absent => concat_final' = concat_final]_vars

\* an export of the AudioPlayer failed half way while the audiobook of an
\* earlier call, made from a list not in ascending order, stood in the
\* directory
C22_Witness ==
    /\ concat_ret.who = "player"
    /\ concat_ret.msg = "error"
    /\ concat_temp.kind = "partial"
    /\ concat_final.kind = "full"
    /\ Len(concat_final.audio) >= 2
    /\ concat_final.audio[1].section > concat_final.audio[2].section

RECURSIVE LeadingNewlines(_)
\* the length of the run of newlines a text starts with
LeadingNewlines(t) ==
    IF t # <<>> /\ Head(t) = NL THEN 1 + LeadingNewlines(Tail(t)) ELSE 0

RECURSIVE BlankLineChunks(_, _)
\* the chunks between the runs of two or more newlines
BlankLineChunks(t, cur) ==
    IF t = <<>> THEN <<cur>>
    ELSE IF LeadingNewlines(t) >= 2
    THEN <<cur>> \o BlankLineChunks(SubSeq(t, LeadingNewlines(t) + 1, Len(t)), <<>>)
    ELSE BlankLineChunks(Tail(t), Append(cur, Head(t)))

\* a chunk without the white space around it
Trimmed(c) ==
    LET solid == {i \in DOMAIN c : c[i] \notin Whitespace}
    IN IF solid = {} THEN <<>>
       ELSE SubSeq(c, CHOOSE i \in solid : \A j \in solid : i <= j,
                      CHOOSE i \in solid : \A j \in solid : i >= j)

\* the trimmed chunks that are not empty, in order
BlankLineSections(t) ==
    LET chunks == BlankLineChunks(t, <<>>)
    IN SelectSeq([i \in DOMAIN chunks |-> Trimmed(chunks[i])],
                 LAMBDA c : c # <<>>)

\* C23: after split_text the sections are the trimmed non-empty chunks between
\* the runs of two or more newlines of the last text, in order; no section is
\* empty; the count returned is the number of sections, and it is at least 1
\* when the text holds a character that is not white space.
C23_SplitAtBlankLines ==
    /\ sections = BlankLineSections(text)
    /\ \A i \in DOMAIN sections : sections[i] # <<>>
    /\ section_count = Len(sections)
    /\ (\E i \in DOMAIN text : text[i] \notin Whitespace) => section_count >= 1

\* two blocks parted by three newlines were loaded
C23_Witness ==
    /\ text = <<"a", NL, NL, NL, "a">>
    /\ sections = <<(<<"a">>), (<<"a">>)>>
    /\ section_count = 2

\* C24: a job steps its sections in ascending order whatever the order of the
\* selection: the list the loop iterates is ascending, and no section is
\* stepped before a smaller one of the same call.
C24_AscendingOrder ==
    op \in {"continue", "ui_generate"} =>
        /\ \A i, j \in DOMAIN queue : i < j => queue[i] <= queue[j]
        /\ \A i, j \in DOMAIN stepped : i < j => stepped[i] <= stepped[j]

\* continue_generation has stepped sections 2 and 3, in this order, and is
\* about to return
C24_Witness ==
    /\ op = "continue" /\ pc = "top"
    /\ selected = {2, 3}
    /\ queue = <<2, 3>> /\ stepped = <<2, 3>>

\* the number of entries for section n in the list the running call found
Occurrences0(n) == Cardinality({i \in DOMAIN files0 : files0[i] = n})

\* C25: idempotence of the step with conversion disabled.  After a step of
\* generate_audio or regenerate_section for section n whose synthesis
\* succeeded, whatever ran before, section_<n>.wav holds one fresh synthesis
\* and temp_section_<n>.wav does not exist; generate_audio lists n at most once
\* and regenerate_section adds no entry to the list.
C25_StepIdempotent ==
    op \in {"generate", "regenerate"} =>
        \A n \in Range(stepped) :
            (synthRes[n] = "ok" /\ convRes[n] = "none") =>
                /\ final[n] = "raw" /\ temp[n] = "none"
                /\ op = "generate" => Occurrences(n) <= 1
                /\ op = "regenerate" => Occurrences(n) = Occurrences0(n)

\* a second generate_audio without conversion ran over the sections of a first
\* run: every final file is one synthesis, no temp file is left, every section
\* is listed once
C25_Witness ==
    /\ calls = 2 /\ op = "generate" /\ pc = "idle" /\ ret.msg = "success"
    /\ files0 = FullSelection /\ index0 = NumSections
    /\ \A n \in Sections : synthRes[n] = "ok" /\ convRes[n] = "none"
    /\ final = [n \in Sections |-> "raw"] /\ temp = NoFiles
    /\ generated_files = FullSelection

\* C26: defensive cleanup in every job operation.  The files left for section
\* n by an earlier attempt are deleted before synthesis, so that they neither
\* block the step (a successful synthesis without conversion ends as
\* section_<n>.wav, no temp file left) nor survive it (when generate_speech
\* wrote nothing, no file of section n exists after the step).
C26_DefensiveCleanup ==
    \A n \in Range(stepped) :
        /\ (synthRes[n] = "ok" /\ convRes[n] = "none") =>
             (final[n] = "raw" /\ temp[n] = "none")
        /\ synthRes[n] = "empty" => (final[n] = "none" /\ temp[n] = "none")

\* a name of the form section_<n>.wav, n a run of decimal digits
IsSectionName(name) ==
    /\ Len(name) >= 4
    /\ name[1] = "section"
    /\ name[2] = "_"
    /\ name[Len(name)] = ".wav"
    /\ \A i \in 3..(Len(name) - 1) : name[i] \in Range(DigitChars)

\* the n of section_<n>.wav
SectionNumber(name) == IntValue(SubSeq(name, 3, Len(name) - 1))

\* C27: get_existing_audio_files returns exactly the files of the directory
\* named section_<n>.wav with n an integer, each once, by ascending n; nothing
\* else (temp_section_<n>.wav, complete_audiobook.wav, a name whose suffix is
\* not an integer) is returned, and no directory gives the empty list.
C27_ResumeFromDisk ==
    LET names == IF output_dir.dir = "dir" THEN output_dir.names ELSE {}
        wanted == {name \in names : IsSectionName(name)}
    IN /\ Range(existing_files) = wanted
       /\ Len(existing_files) = Cardinality(wanted)
       /\ \A i \in 1..(Len(existing_files) - 1) :
            SectionNumber(existing_files[i]) < SectionNumber(existing_files[i + 1])

\* C28: handle_generation_complete called with no list or an empty list leaves
\* the list of the AudioPlayer and its cursor as they are.
C28_EmptyResultKeepsPlayback ==
    [][ (delivered' /\ ~delivered /\ (ret.absent \/ ret.files = <<>>)) =>
          /\ PlayerList' = PlayerList
          /\ UNCHANGED <<player_files, player_shared, current_audio_index>>
      ]_vars

\* a rejected call came back while the player stood on the second of the
\* files of an earlier job: list and cursor are still there
C28_Witness ==
    /\ delivered /\ pc = "idle" /\ ret.msg = "rejected"
    /\ Len(PlayerList) >= 2 /\ current_audio_index = 1
    /\ shown = 0

\* C29: while no per-section step is in progress, current_section_index is the
\* section of the last entry of generated_files, and 0 when the list is empty.
C29_IndexIsLastEntry ==
    pc # "step" =>
        current_section_index =
            IF generated_files = <<>> THEN 0 ELSE Last(generated_files)

\* a continued job has committed section 3 after sections 1 and 2
C29_Witness ==
    /\ op = "continue" /\ pc = "idle"
    /\ files0 = <<1, 2>>
    /\ generated_files = <<1, 2, 3>> /\ current_section_index = 3

\* C30: generated_files is strictly ascending by section number after any
\* sequence of generate_audio, stop_generation and continue_generation.
C30_ListStrictlyAscending == StrictlyAscending(generated_files)

====
